---- MODULE Spec2Model ----
(***************************************************************************)
(* Model of server/handlers/mesh_ops_handlers.go: the adapter registry     *)
(* (MeshAdapterConfigHandler, addAdapter, deleteAdapter), the operation    *)
(* dispatcher (MeshOpsHandler) and the meshsync ingestion of the resolver  *)
(* (listenToMeshSyncEvents, listernToEvents, recordMeshSyncData).          *)
(*                                                                         *)
(* prefObj.MeshAdapters is a Go slice of *models.Adapter.  It is modelled  *)
(* as a slice header (off, len) over a backing array arr of pointers; the  *)
(* pointed-to Adapter structs live in heap.  A nil slice and the empty     *)
(* literal []*models.Adapter{} both have len 0 and cap 0 and behave alike  *)
(* in every operation of this file, so they are one value here.            *)
(*                                                                         *)
(* Strings are modelled as sequences of tokens: a host is a one-token      *)
(* string, and fmt.Sprintf builds longer strings by concatenation.         *)
(***************************************************************************)
EXTENDS Integers, Sequences, FiniteSets, TLC

\* ---------------------------------------------------------------- bounds
MaxAdapters == 3     \* Adapter structs allocated in one run (guards Add)
MaxContexts == 2     \* length of the K8sContext list of one dispatch
MaxMessages == 3     \* messages the broker channel hands out in one run
MaxSubscriptions == 2    \* calls of listenToMeshSyncEvents in one run

\* ---------------------------------------------------------------- inputs
Hosts == {"a", "b", "c"}
Blank == " "                       \* a meshLocationURL that trims to ""
Urls == Hosts \cup {Blank}
FirstPort == 1
NilPtr == 0

\* error values
NoErr == "nil"
ErrAddAdapter == "ErrAddAdapter"
ErrMeshClient == "ErrMeshClient"
ErrSupportedOperations == "SupportedOperations failed"
ErrComponentInfo == "ComponentInfo failed"
ErrValidAdapter == "ErrValidAdapter"
ErrRecordPreferences == "ErrRecordPreferences"
ErrInvalidK8SConfig == "ErrInvalidK8SConfig"
ErrCreateClient == "CreateClient failed"
ErrNewV4 == "uuid.NewV4 failed"
ErrApplyOperation == "ApplyOperation failed"

\* the context value is absent or of another type
NoCtx == [ok |-> FALSE, list |-> <<>>]

VARIABLES
    heap,        \* allocated models.Adapter structs; a pointer is an index
    arr,         \* backing array of prefObj.MeshAdapters (pointers)
    prefObj,     \* prefObj.MeshAdapters: slice header [off, len] over arr
    tracker,     \* adapters handed to h.config.AdapterTracker.AddAdapter
    probers,     \* pointers given to models.CheckAdapterAvailability
    nextPort,    \* state of models.GetNextAvailablePort
    last,        \* what the most recent request did (inputs, calls, result)
    race,        \* two MeshAdapterConfigHandler requests running concurrently
    loops,       \* the goroutines started by listenToMeshSyncEvents
    persisted,   \* the records created through r.DBHandler, in order
    delivered    \* number of messages r.meshsyncChannel has handed out

vars == <<heap, arr, prefObj, tracker, probers, nextPort, last, race, loops,
          persisted, delivered>>

\* the state outside the registry
others == <<race, loops, persisted, delivered>>

\* ------------------------------------------------------------- Go slices
Cap(a, s) == Len(a) - s.off

\* the elements visible through slice header s of array a
Elems(a, s) == [i \in 1 .. s.len |-> a[s.off + i]]

\* the Adapter values a slice of pointers denotes
Deref(hp, ptrs) == [i \in 1 .. Len(ptrs) |-> hp[ptrs[i]]]

Registry == Deref(heap, Elems(arr, prefObj))

\* capacity chosen by append when the backing array is full (runtime
\* growslice for small slices: double, or the needed length if larger)
GrowCap(oldCap, newLen) == IF newLen > 2 * oldCap THEN newLen ELSE 2 * oldCap

\* append(s, p): in place when there is spare capacity, else a fresh array
GoAppend(a, s, p) ==
    IF s.len < Cap(a, s)
    THEN [arr |-> [a EXCEPT ![s.off + s.len + 1] = p],
          s   |-> [off |-> s.off, len |-> s.len + 1]]
    ELSE [arr |-> [i \in 1 .. GrowCap(Cap(a, s), s.len + 1) |->
                      IF i <= s.len THEN a[s.off + i]
                      ELSE IF i = s.len + 1 THEN p ELSE NilPtr],
          s   |-> [off |-> 0, len |-> s.len + 1]]

\* ------------------------------------------------------------ addAdapter
\* how far the registration RPCs get: CreateClient fails, SupportedOperations
\* fails, ComponentInfo fails, or all three succeed
AddOutcomes == {"clientFail", "opsFail", "infoFail", "ok"}

alreadyConfiguredFirstOnly(list, meshLocationURL) ==
    Len(list) > 0 /\ list[1].Host = meshLocationURL

alreadyConfiguredNever(list, meshLocationURL) == FALSE

\* lines 188-194: is some adapter's Host equal to meshLocationURL
alreadyConfigured(list, meshLocationURL) ==
    \E i \in 1 .. Len(list) : list[i].Host = meshLocationURL

addErrIgnoreInfo(rpc) ==
    IF rpc = "clientFail" THEN ErrMeshClient
    ELSE IF rpc = "opsFail" THEN ErrSupportedOperations
    ELSE NoErr

\* lines 201-220: the error addAdapter returns for an RPC outcome
addErr(rpc) ==
    IF rpc = "clientFail" THEN ErrMeshClient
    ELSE IF rpc = "opsFail" THEN ErrSupportedOperations
    ELSE IF rpc = "infoFail" THEN ErrComponentInfo
    ELSE NoErr

\* lines 201-220: the calls made on the adapter connection; the deferred
\* Close runs once the client exists
addCalls(rpc) ==
    IF rpc = "clientFail" THEN <<"CreateClient">>
    ELSE IF rpc = "opsFail"
    THEN <<"CreateClient", "SupportedOperations", "Close">>
    ELSE <<"CreateClient", "SupportedOperations", "ComponentInfo", "Close">>

NewAdapterUnavailable(meshLocationURL, port) ==
    [Host |-> meshLocationURL, Port |-> port, Available |-> FALSE]

\* lines 222-232: the new Adapter struct
NewAdapter(meshLocationURL, port) ==
    [Host |-> meshLocationURL, Port |-> port, Available |-> TRUE]

\* the state an Add/Remove works on and returns
St(hp, a, s, tr, pr, np) ==
    [heap |-> hp, arr |-> a, s |-> s, tracker |-> tr, probers |-> pr,
     nextPort |-> np]

Cur == St(heap, arr, prefObj, tracker, probers, nextPort)

ListOf(st) == Deref(st.heap, Elems(st.arr, st.s))

\* addAdapter: returns the new state, the RPC calls made and the error
addAdapter(st, meshLocationURL, rpc) ==
    IF alreadyConfigured(ListOf(st), meshLocationURL)
    THEN [st |-> st, calls |-> <<>>, err |-> NoErr]
    ELSE IF addErr(rpc) # NoErr
    THEN [st |-> st, calls |-> addCalls(rpc), err |-> addErr(rpc)]
    ELSE LET adapter == NewAdapter(meshLocationURL, st.nextPort)
             ptr == Len(st.heap) + 1
             app == GoAppend(st.arr, st.s, ptr)
         IN  [st |-> St(Append(st.heap, adapter), app.arr, app.s,
                        st.tracker \cup {adapter},
                        st.probers \cup {ptr},
                        st.nextPort + 1),
              calls |-> addCalls(rpc),
              err |-> NoErr]

\* --------------------------------------------------------- deleteAdapter
\* lines 248-254: index of the first adapter whose Host is adapterLoc, or -1
RECURSIVE FindFrom(_, _, _)
FindFrom(list, adapterLoc, i) ==
    IF i > Len(list) THEN -1
    ELSE IF adapterLoc = list[i].Host THEN i - 1
    ELSE FindFrom(list, adapterLoc, i + 1)

FindHost(list, adapterLoc) == FindFrom(list, adapterLoc, 1)

\* swap-and-pop: the last element takes the place of the removed one
deleteSliceSwapPop(a, s, aID) ==
    [arr |-> [a EXCEPT ![s.off + aID + 1] = a[s.off + s.len]],
     s   |-> [off |-> s.off, len |-> s.len - 1]]

\* lines 261-268: the three slicing branches; the middle one is
\* append(meshAdapters[:aID], meshAdapters[aID+1:]...), which has spare
\* capacity and therefore shifts the tail down inside the backing array
deleteSlice(a, s, aID) ==
    IF aID = 0
    THEN [arr |-> a, s |-> [off |-> s.off + 1, len |-> s.len - 1]]
    ELSE IF aID = s.len - 1
    THEN [arr |-> a, s |-> [off |-> s.off, len |-> s.len - 1]]
    ELSE [arr |-> [i \in 1 .. Len(a) |->
                      IF i > s.off + aID /\ i < s.off + s.len
                      THEN a[i + 1] ELSE a[i]],
          s   |-> [off |-> s.off, len |-> s.len - 1]]

\* a not-found lookup that reports success
deleteAdapterNoError(st, adapterLoc) ==
    LET aID == FindHost(ListOf(st), adapterLoc)
    IN  IF aID < 0
        THEN [st |-> st, err |-> NoErr]
        ELSE LET d == deleteSlice(st.arr, st.s, aID)
             IN  [st |-> [st EXCEPT !.arr = d.arr, !.s = d.s], err |-> NoErr]

\* lines 242-276
deleteAdapter(st, adapterLoc) ==
    LET aID == FindHost(ListOf(st), adapterLoc)
    IN  IF aID < 0
        THEN [st |-> st, err |-> ErrValidAdapter]
        ELSE LET d == deleteSlice(st.arr, st.s, aID)
             IN  [st |-> [st EXCEPT !.arr = d.arr, !.s = d.s], err |-> NoErr]

\* -------------------------------------------------------- MeshOpsHandler
\* fmt.Sprintf("%s", port) for the integer Port that line 110 formats with
\* %d: the verb does not fit the operand and fmt renders "%!s(int=N)"
FormatS(port) == <<"%!s(int=", ToString(port), ")">>

\* fmt.Sprintf("%d", port): the decimal digits
FormatD(port) == <<ToString(port)>>

\* line 305: fmt.Sprintf("%s:%s", ad.Host, ad.Port)
DispatchKey(ad) == <<ad.Host, ":">> \o FormatS(ad.Port)

\* the address keys a request may carry: a bare host, host:port in decimal,
\* and the text line 305 produces
KeyHosts == {"a"}
KeyPorts == FirstPort .. (FirstPort + 1)
AddressKeys ==
    {<<h>> : h \in KeyHosts}
        \cup {<<h, ":">> \o FormatD(p) : h \in KeyHosts, p \in KeyPorts}
        \cup {<<h, ":">> \o FormatS(p) : h \in KeyHosts, p \in KeyPorts}

RECURSIVE FindKeyFrom(_, _, _)
FindKeyFrom(list, adapterLoc, i) ==
    IF i > Len(list) THEN -1
    ELSE IF adapterLoc = DispatchKey(list[i]) THEN i - 1
    ELSE FindKeyFrom(list, adapterLoc, i + 1)

\* aID starts at 0 instead of -1: an unknown key resolves to the first entry
FindKeyDefaultFirst(list, adapterLoc) ==
    IF FindKeyFrom(list, adapterLoc, 1) < 0 /\ Len(list) > 0 THEN 0
    ELSE FindKeyFrom(list, adapterLoc, 1)

\* lines 302-309: index of the first adapter whose host:port text is
\* adapterLoc, or -1
FindKey(list, adapterLoc) == FindKeyFrom(list, adapterLoc, 1)

\* the value of req.Context().Value(models.KubeClustersKey): ok is whether
\* the type assertion to []models.K8sContext succeeds.  A context is
\* [ok, val]: GenerateKubeConfig returns the blob val, or fails with val.
CtxItems ==
    {[ok |-> TRUE, val |-> "k1"], [ok |-> TRUE, val |-> "k2"],
     [ok |-> FALSE, val |-> "e1"], [ok |-> FALSE, val |-> "e2"]}

\* lists of distinct cluster contexts
CtxLists ==
    UNION {{l \in [1 .. n -> CtxItems] :
               \A i, j \in 1 .. n : l[i] = l[j] => i = j} :
           n \in 0 .. MaxContexts}

CtxValues == {NoCtx} \cup {[ok |-> TRUE, list |-> l] : l \in CtxLists}

noContextsNilOnly(ctx) == ~ctx.ok

\* line 325: !ok || len(mk8sContexts) == 0
noContexts(ctx) == ~ctx.ok \/ Len(ctx.list) = 0

\* the loop skips a context whose generation fails
RECURSIVE GenerateSkipping(_, _, _)
GenerateSkipping(ctxs, i, configs) ==
    IF i > Len(ctxs) THEN [err |-> NoErr, configs |-> configs]
    ELSE IF ~ctxs[i].ok THEN GenerateSkipping(ctxs, i + 1, configs)
    ELSE GenerateSkipping(ctxs, i + 1, Append(configs, ctxs[i].val))

\* the loop prepends each blob
RECURSIVE GeneratePrepending(_, _, _)
GeneratePrepending(ctxs, i, configs) ==
    IF i > Len(ctxs) THEN [err |-> NoErr, configs |-> configs]
    ELSE IF ~ctxs[i].ok THEN [err |-> ctxs[i].val, configs |-> <<>>]
    ELSE GeneratePrepending(ctxs, i + 1, <<ctxs[i].val>> \o configs)

\* lines 331-340: generate the credential blobs in order, stop at the first
\* error
RECURSIVE GenerateConfigs(_, _, _)
GenerateConfigs(ctxs, i, configs) ==
    IF i > Len(ctxs) THEN [err |-> NoErr, configs |-> configs]
    ELSE IF ~ctxs[i].ok THEN [err |-> ctxs[i].val, configs |-> <<>>]
    ELSE GenerateConfigs(ctxs, i + 1, Append(configs, ctxs[i].val))

\* how far the call gets once the credentials exist: CreateClient fails,
\* uuid.NewV4 fails, ApplyOperation returns an error, or it succeeds
OpOutcomes == {"clientFail", "uuidFail", "applyFail", "ok"}

\* lines 342-369: calls made on the adapter connection
opCalls(rpc) ==
    IF rpc = "clientFail" THEN <<"CreateClient">>
    ELSE IF rpc = "uuidFail" THEN <<"CreateClient", "Close">>
    ELSE <<"CreateClient", "ApplyOperation", "Close">>

\* lines 342-369: the error written to the response
opErr(rpc) ==
    IF rpc = "clientFail" THEN ErrCreateClient
    ELSE IF rpc = "uuidFail" THEN ErrNewV4
    ELSE IF rpc = "applyFail" THEN ErrApplyOperation
    ELSE NoErr

\* MeshOpsHandler: the error, the calls, the KubeConfigs of the
\* ApplyRuleRequest and the host the client was created for
meshOps(list, adapterLoc, ctx, rpc) ==
    LET aID == FindKey(list, adapterLoc)
    IN  IF aID < 0
        THEN [err |-> ErrValidAdapter, calls |-> <<>>, kube |-> <<>>,
              target |-> ""]
        ELSE IF noContexts(ctx)
        THEN [err |-> ErrInvalidK8SConfig, calls |-> <<>>, kube |-> <<>>,
              target |-> ""]
        ELSE LET g == GenerateConfigs(ctx.list, 1, <<>>)
             IN  IF g.err # NoErr
                 THEN [err |-> g.err, calls |-> <<>>, kube |-> <<>>,
                       target |-> ""]
                 ELSE [err |-> opErr(rpc), calls |-> opCalls(rpc),
                       kube |-> IF rpc \in {"applyFail", "ok"}
                                THEN g.configs ELSE <<>>,
                       target |-> list[aID + 1].Host]

\* ------------------------------------------------------ request records
Snapshot ==
    [list |-> Registry, tracker |-> tracker, probers |-> probers,
     nextPort |-> nextPort, heapLen |-> Len(heap), s |-> prefObj]

Obs(op, arg, rpc, err, calls, ret, recordCalls, pre) ==
    [op |-> op, arg |-> arg, rpc |-> rpc, err |-> err, calls |-> calls,
     ret |-> ret, recordCalls |-> recordCalls, pre |-> pre,
     ctx |-> NoCtx, kube |-> <<>>, target |-> "", ptr |-> NilPtr]

\* a request of the concurrent pair that has not started
IdleReq ==
    [pc |-> "idle", op |-> "none", host |-> "", s |-> [off |-> 0, len |-> 0],
     a |-> <<>>, alias |-> FALSE, err |-> NoErr]

Procs == {1, 2}

NoRace == [base |-> <<>>, req |-> [p \in Procs |-> IdleReq]]

Init ==
    /\ heap = <<>>
    /\ arr = <<>>
    /\ prefObj = [off |-> 0, len |-> 0]
    /\ tracker = {}
    /\ probers = {}
    /\ nextPort = FirstPort
    /\ last = Obs("none", <<>>, "ok", NoErr, <<>>, <<>>, 0,
                  [list |-> <<>>, tracker |-> {}, probers |-> {},
                   nextPort |-> FirstPort, heapLen |-> 0,
                   s |-> [off |-> 0, len |-> 0]])
    /\ race = NoRace
    /\ loops = <<>>
    /\ persisted = <<>>
    /\ delivered = 0

\* install the state an Add/Remove returned; prefObj.MeshAdapters is
\* assigned at line 170, before RecordPreferences is called
Install(st) ==
    /\ heap' = st.heap
    /\ arr' = st.arr
    /\ prefObj' = st.s
    /\ tracker' = st.tracker
    /\ probers' = st.probers
    /\ nextPort' = st.nextPort

\* lines 171-176: the error of the handler after RecordPreferences
recordErr(recordOK) == IF recordOK THEN NoErr ELSE ErrRecordPreferences

\* MeshAdapterConfigHandler, http.MethodPost
Add(meshLocationURL, rpc, recordOK) ==
    /\ UNCHANGED others
    /\ IF meshLocationURL = Blank
       THEN /\ last' = Obs("Add", <<meshLocationURL>>, rpc, ErrAddAdapter,
                           <<>>, <<>>, 0, Snapshot)
            /\ UNCHANGED <<heap, arr, prefObj, tracker, probers, nextPort>>
       ELSE \E r \in {addAdapter(Cur, meshLocationURL, rpc)} :
               IF r.err # NoErr
               THEN /\ last' = Obs("Add", <<meshLocationURL>>, rpc, r.err,
                                   r.calls, ListOf(r.st), 0, Snapshot)
                    /\ UNCHANGED <<heap, arr, prefObj, tracker, probers,
                                   nextPort>>
               ELSE /\ Len(r.st.heap) <= MaxAdapters
                    /\ Install(r.st)
                    /\ last' = Obs("Add", <<meshLocationURL>>, rpc,
                                   recordErr(recordOK), r.calls, ListOf(r.st),
                                   1, Snapshot)

\* MeshAdapterConfigHandler, http.MethodDelete
Remove(adapterLoc, recordOK) ==
    /\ UNCHANGED others
    /\ \E r \in {deleteAdapter(Cur, adapterLoc)} :
           IF r.err # NoErr
           THEN /\ last' = Obs("Remove", <<adapterLoc>>, "ok", r.err, <<>>,
                               ListOf(r.st), 0, Snapshot)
                /\ UNCHANGED <<heap, arr, prefObj, tracker, probers, nextPort>>
           ELSE /\ Install(r.st)
                /\ last' = Obs("Remove", <<adapterLoc>>, "ok",
                               recordErr(recordOK), <<>>, ListOf(r.st), 1,
                               Snapshot)

\* MeshOpsHandler
Dispatch(adapterLoc, ctx, rpc) ==
    /\ UNCHANGED others
    /\ \E r \in {meshOps(Registry, adapterLoc, ctx, rpc)} :
           /\ last' = [op |-> "Dispatch", arg |-> adapterLoc, rpc |-> rpc,
                       err |-> r.err, calls |-> r.calls, ret |-> <<>>,
                       recordCalls |-> 0, pre |-> Snapshot, ctx |-> ctx,
                       kube |-> r.kube, target |-> r.target, ptr |-> NilPtr]
           /\ UNCHANGED <<heap, arr, prefObj, tracker, probers, nextPort>>

AddStep ==
    \E u \in Urls, rpc \in AddOutcomes, recordOK \in BOOLEAN :
        Add(u, rpc, recordOK)

RemoveStep ==
    \E u \in Hosts, recordOK \in BOOLEAN : Remove(u, recordOK)

Next == AddStep \/ RemoveStep

Spec == Init /\ [][Next]_vars

\* the dispatcher, over the registries that successful registrations build
RegisterStep == \E u \in Hosts : Add(u, "ok", TRUE)

\* the outcome of the remote call is an input only when the call can be
\* reached, that is when every credential generates
DispatchInputs ==
    {x \in CtxValues \X OpOutcomes :
        x[2] = "ok" \/ (x[1].ok /\ \A i \in 1 .. Len(x[1].list) :
                                       x[1].list[i].ok)}

DispatchStep ==
    \E k \in AddressKeys, x \in DispatchInputs : Dispatch(k, x[1], x[2])

NextDispatch == RegisterStep \/ DispatchStep

SpecDispatch == Init /\ [][NextDispatch]_vars
\* ---------------------------------------------------- availability prober
\* models.CheckAdapterAvailability(adapter) starts a goroutine that holds
\* the pointer it was given; deleteAdapter has no call that stops it and
\* keeps no handle to it.  One periodic check of the prober of struct p:
\* dial the endpoint, write the result to p.Available.
Probe(p, reachable) ==
    /\ p \in probers
    /\ heap' = [heap EXCEPT ![p].Available = reachable]
    /\ last' = [Obs("Probe", <<heap[p].Host>>, "ok", NoErr, <<"Dial">>,
                    <<>>, 0, Snapshot) EXCEPT !.ptr = p]
    /\ UNCHANGED <<arr, prefObj, tracker, probers, nextPort>>
    /\ UNCHANGED others

UnregisterStep == \E u \in Hosts : Remove(u, TRUE)

ProbeStep ==
    \E p \in 1 .. Len(heap), reachable \in BOOLEAN : Probe(p, reachable)

NextProbe == RegisterStep \/ UnregisterStep \/ ProbeStep

\* registrations and removals that go through, and prober checks
SpecProbe == Init /\ [][NextProbe]_vars

\* h.config.AdapterTracker.GetAdapters: the adapters given to AddAdapter
GetAdapters(tr) == tr

\* ------------------------------------------- concurrent handler requests
\* MeshAdapterConfigHandler takes no lock.  Two requests on the same
\* prefObj are interleaved at the one point every build has: between the
\* read of prefObj.MeshAdapters with the call of addAdapter/deleteAdapter
\* (lines 138-164) and the assignment prefObj.MeshAdapters = meshAdapters
\* (line 170).  A request holds its slice header; the header refers to the
\* shared backing array (alias) or to an array append allocated for it (a).
HostList(list) == [i \in 1 .. Len(list) |-> list[i].Host]

AllIdle == \A p \in Procs : race.req[p].pc = "idle"

\* lines 154 and 161: the call the request makes
Compute(op, host) ==
    IF op = "Add"
    THEN [st |-> addAdapter(Cur, host, "ok").st,
          err |-> addAdapter(Cur, host, "ok").err]
    ELSE deleteAdapter(Cur, host)

\* lines 138-164 of request p
Begin(p, op, host) ==
    /\ race.req[p].pc = "idle"
    /\ \E r \in {Compute(op, host)} :
          LET fresh == Len(r.st.heap) > Len(heap)
                           /\ ~(prefObj.len < Cap(arr, prefObj))
          IN  /\ Len(r.st.heap) <= MaxAdapters
              /\ heap' = r.st.heap
              /\ tracker' = r.st.tracker
              /\ probers' = r.st.probers
              /\ nextPort' = r.st.nextPort
              /\ arr' = IF fresh THEN arr ELSE r.st.arr
              /\ race' =
                   [base |-> IF AllIdle THEN HostList(Registry)
                             ELSE race.base,
                    req |-> [race.req EXCEPT ![p] =
                       [pc |-> IF r.err # NoErr THEN "done" ELSE "computed",
                        op |-> op, host |-> host, s |-> r.st.s,
                        a |-> IF fresh THEN r.st.arr ELSE <<>>,
                        alias |-> ~fresh, err |-> r.err]]]
    /\ UNCHANGED <<prefObj, last, loops, persisted, delivered>>

\* line 170 of request p, followed by RecordPreferences and the response.
\* When the assignment makes prefObj refer to another array, a request
\* that still holds the old one keeps it.
Commit(p) ==
    /\ race.req[p].pc = "computed"
    /\ prefObj' = race.req[p].s
    /\ arr' = IF race.req[p].alias THEN arr ELSE race.req[p].a
    /\ race' = [race EXCEPT !.req =
                  [q \in Procs |->
                     IF q = p THEN [race.req[p] EXCEPT !.pc = "done"]
                     ELSE IF race.req[q].alias /\ ~race.req[p].alias
                     THEN [race.req[q] EXCEPT !.alias = FALSE, !.a = arr]
                     ELSE race.req[q]]]
    /\ UNCHANGED <<heap, tracker, probers, nextPort, last, loops, persisted,
                   delivered>>

\* the registry the pair starts from
SetupStep == AllIdle /\ (RegisterStep \/ UnregisterStep)

BeginStep ==
    \E p \in Procs, op \in {"Add", "Remove"}, host \in Hosts :
        Begin(p, op, host)

CommitStep == \E p \in Procs : Commit(p)

NextRace == SetupStep \/ BeginStep \/ CommitStep

SpecRace == Init /\ [][NextRace]_vars

\* ------------------------------------------------- meshsync ingestion
DecodeError == "DecodeError"
PersistError == "PersistError"

\* a broker message: its position in the delivery order and whether its
\* object decodes
NoMsg == [id |-> 0, wellFormed |-> TRUE]

\* the goroutine of one listenToMeshSyncEvents call: where it is, the
\* message it holds, the ids it has received, the error listernToEvents
\* returned and the events sent on the subscription's channel
NewLoop ==
    [pc |-> "recv", msg |-> NoMsg, received |-> <<>>, err |-> NoErr,
     events |-> <<>>]

\* lines 396-418: every call makes a channel and starts a goroutine that
\* runs listernToEvents on the one r.meshsyncChannel
Subscribe ==
    /\ Len(loops) < MaxSubscriptions
    /\ loops' = Append(loops, NewLoop)
    /\ UNCHANGED <<heap, arr, prefObj, tracker, probers, nextPort, last,
                   race, persisted, delivered>>

\* line 439: loop c receives the next message of the channel
Recv(c, wellFormed) ==
    /\ loops[c].pc = "recv"
    /\ delivered < MaxMessages
    /\ delivered' = delivered + 1
    /\ loops' = [loops EXCEPT
                    ![c].pc = "proc",
                    ![c].msg = [id |-> delivered + 1,
                                wellFormed |-> wellFormed],
                    ![c].received = Append(@, delivered + 1)]
    /\ UNCHANGED <<heap, arr, prefObj, tracker, probers, nextPort, last,
                   race, persisted>>

persistRecordFirst(db, rec) == <<rec>> \o db

\* lines 428-434: handler.Create(&object)
persistRecord(db, rec) == Append(db, rec)

onErrorContinue == "recv"

\* lines 443-445 and 449-451: return err leaves the loop
onError == "failed"

\* lines 440-451: decode the message and persist the object
Process(c, persistOK) ==
    /\ loops[c].pc = "proc"
    /\ IF ~loops[c].msg.wellFormed
       THEN /\ loops' = [loops EXCEPT ![c].pc = onError,
                                      ![c].err = DecodeError]
            /\ UNCHANGED persisted
       ELSE IF ~persistOK
       THEN /\ loops' = [loops EXCEPT ![c].pc = onError,
                                      ![c].err = PersistError]
            /\ UNCHANGED persisted
       ELSE /\ persisted' = persistRecord(persisted,
                                [id |-> loops[c].msg.id, by |-> c])
            /\ loops' = [loops EXCEPT ![c].pc = "recv"]
    /\ UNCHANGED <<heap, arr, prefObj, tracker, probers, nextPort, last,
                   race, delivered>>

statusEventNoDescription(err) ==
    [Name |-> "meshsync", Status |-> "UNKNOWN", Description |-> ""]

\* lines 404-411: the OperatorControllerStatus sent on the channel
statusEvent(err) ==
    [Name |-> "meshsync", Status |-> "UNKNOWN", Description |-> err]

\* lines 402-413: the goroutine sends one status and returns; the send
\* completes when the subscriber receives
Notify(c) ==
    /\ loops[c].pc = "failed"
    /\ loops' = [loops EXCEPT ![c].pc = "returned",
                              ![c].events = Append(@, statusEvent(loops[c].err))]
    /\ UNCHANGED <<heap, arr, prefObj, tracker, probers, nextPort, last,
                   race, persisted, delivered>>

RecvStep ==
    \E c \in 1 .. Len(loops), wellFormed \in BOOLEAN : Recv(c, wellFormed)

ProcessStep ==
    \E c \in 1 .. Len(loops), persistOK \in BOOLEAN : Process(c, persistOK)

NotifyStep == \E c \in 1 .. Len(loops) : Notify(c)

NextIngest == Subscribe \/ RecvStep \/ ProcessStep \/ NotifyStep

SpecIngest == Init /\ [][NextIngest]_vars

\* ---------------------------------------------------------- properties
Registered(list, h) == \E i \in 1 .. Len(list) : list[i].Host = h

HostCount(list, h) == Cardinality({i \in 1 .. Len(list) : list[i].Host = h})

\* list without its i-th element
RemoveAt(list, i) ==
    [j \in 1 .. (Len(list) - 1) |-> IF j < i THEN list[j] ELSE list[j + 1]]

CountCalls(calls, name) ==
    Cardinality({i \in 1 .. Len(calls) : calls[i] = name})

\* the side effects of a registration are absent: no port taken, no prober
\* started, no struct allocated, nothing handed to the tracker
NoSideEffects ==
    /\ nextPort = last.pre.nextPort
    /\ probers = last.pre.probers
    /\ tracker = last.pre.tracker
    /\ Len(heap) = last.pre.heapLen

IsAdd == last.op = "Add" /\ last.arg[1] \in Hosts
IsRemove == last.op = "Remove"
IsDispatch == last.op = "Dispatch"

\* C1: after any sequence of Add and Remove from the empty registry, no two
\* entries of the registry have the same Host.
C1_OneAdapterPerHost ==
    \A i, j \in 1 .. Len(Registry) :
        Registry[i].Host = Registry[j].Host => i = j

\* a host is registered again after its removal, next to another entry
C1_Witness ==
    /\ IsAdd /\ last.err = NoErr
    /\ Len(Registry) >= 2
    /\ Len(Registry) = Len(last.pre.list) + 1
    /\ \E p \in 1 .. last.pre.heapLen : heap[p].Host = last.arg[1]

\* C2: Add(host) for a host already in the registry returns the registry
\* unchanged, with one entry for the host, and opens no connection, issues
\* no RPC, allocates no port and starts no prober.
C2_AddExistingIsNoOp ==
    (IsAdd /\ Registered(last.pre.list, last.arg[1])) =>
        /\ Registry = last.pre.list
        /\ last.ret = last.pre.list
        /\ HostCount(Registry, last.arg[1]) = 1
        /\ last.calls = <<>>
        /\ NoSideEffects

\* the host added again is not the first entry
C2_Witness ==
    /\ IsAdd /\ last.rpc = "ok"
    /\ Len(last.pre.list) >= 2
    /\ last.pre.list[2].Host = last.arg[1]

\* C3: when CreateClient, SupportedOperations or ComponentInfo fails during
\* Add(host) of an unregistered host, the adapter is added neither to the
\* list nor to the tracker, no port is allocated, no prober is started,
\* RecordPreferences is not called and the registry is as before.
C3_FailedAddLeavesNothing ==
    (IsAdd /\ ~Registered(last.pre.list, last.arg[1]) /\ last.rpc # "ok") =>
        /\ last.err # NoErr
        /\ Registry = last.pre.list
        /\ ~Registered(Registry, last.arg[1])
        /\ NoSideEffects
        /\ last.recordCalls = 0

\* ComponentInfo fails after SupportedOperations succeeded, on a registry
\* that has entries
C3_Witness ==
    /\ IsAdd /\ ~Registered(last.pre.list, last.arg[1])
    /\ last.rpc = "infoFail"
    /\ Len(last.pre.list) >= 1

\* C4: a successful Add(host) of an unregistered host yields the previous
\* sequence with one new entry appended at the end; the entry has
\* Host = host, Available = true, the allocated port and a started prober,
\* and every earlier entry keeps its position.
C4_AddAppends ==
    (IsAdd /\ ~Registered(last.pre.list, last.arg[1]) /\ last.rpc = "ok") =>
        /\ Len(Registry) = Len(last.pre.list) + 1
        /\ \A i \in 1 .. Len(last.pre.list) : Registry[i] = last.pre.list[i]
        /\ Registry[Len(Registry)] =
               [Host |-> last.arg[1], Port |-> last.pre.nextPort,
                Available |-> TRUE]
        /\ last.ret = Registry
        /\ nextPort = last.pre.nextPort + 1
        /\ Len(heap) = last.pre.heapLen + 1
        /\ heap[Len(heap)] = Registry[Len(Registry)]
        /\ probers = last.pre.probers \cup {Len(heap)}

\* an append to a registry that already holds two entries
C4_Witness ==
    /\ IsAdd /\ ~Registered(last.pre.list, last.arg[1]) /\ last.rpc = "ok"
    /\ Len(last.pre.list) = 2

\* C5: Remove(host) of a registered host, at any position, returns the
\* previous sequence with that one entry deleted, the others once each and
\* in their previous order.
C5_RemoveDeletesOne ==
    (IsRemove /\ Registered(last.pre.list, last.arg[1])) =>
        \E i \in 1 .. Len(last.pre.list) :
            /\ last.pre.list[i].Host = last.arg[1]
            /\ last.ret = RemoveAt(last.pre.list, i)
            /\ Registry = last.ret

\* the middle entry of three is removed
C5_Witness ==
    /\ IsRemove
    /\ Len(last.pre.list) = 3
    /\ last.pre.list[2].Host = last.arg[1]
    /\ Len(Registry) = 2

\* C6: Remove(host) of a host that is not registered returns
\* ErrValidAdapter, leaves the registry unchanged and does not call
\* RecordPreferences.
C6_RemoveUnknown ==
    (IsRemove /\ ~Registered(last.pre.list, last.arg[1])) =>
        /\ last.err = ErrValidAdapter
        /\ Registry = last.pre.list
        /\ last.ret = last.pre.list
        /\ last.recordCalls = 0

\* an unknown host is removed from a registry that has entries
C6_Witness ==
    /\ IsRemove /\ ~Registered(last.pre.list, last.arg[1])
    /\ Len(last.pre.list) >= 2
\* the request's key is the host:port text of a registered adapter
Resolves == \E i \in 1 .. Len(last.pre.list) :
                last.arg = DispatchKey(last.pre.list[i])

AllGenerate(ctxs) == \A i \in 1 .. Len(ctxs) : ctxs[i].ok

\* the position of the first context whose credential generation fails
FirstFailure(ctxs) ==
    CHOOSE i \in 1 .. Len(ctxs) :
        ~ctxs[i].ok /\ \A j \in 1 .. (i - 1) : ctxs[j].ok

Blobs(ctxs) == [i \in 1 .. Len(ctxs) |-> ctxs[i].val]

\* C7: a dispatch whose address key matches no registered adapter fails
\* with ErrValidAdapter and neither creates a client nor calls
\* ApplyOperation, whatever the other parameters and cluster contexts.
C7_UnknownKeyNoCall ==
    (IsDispatch /\ ~Resolves) =>
        /\ last.err = ErrValidAdapter
        /\ last.calls = <<>>

\* an unknown key on a registry with entries, in a request that could
\* otherwise go through
C7_Witness ==
    /\ IsDispatch /\ ~Resolves
    /\ Len(last.pre.list) >= 1
    /\ last.ctx.ok /\ Len(last.ctx.list) >= 1 /\ AllGenerate(last.ctx.list)
    /\ last.rpc = "ok"

\* C8: a dispatch to a resolved adapter with no cluster contexts (value
\* absent, or an empty list) fails with ErrInvalidK8SConfig and never calls
\* ApplyOperation.
C8_NoContextsNoCall ==
    (IsDispatch /\ Resolves /\ (~last.ctx.ok \/ Len(last.ctx.list) = 0)) =>
        /\ last.err = ErrInvalidK8SConfig
        /\ CountCalls(last.calls, "ApplyOperation") = 0
        /\ last.calls = <<>>

\* the context list is present and empty
C8_Witness ==
    /\ IsDispatch /\ Resolves
    /\ last.ctx.ok /\ Len(last.ctx.list) = 0

\* C9: if credential generation fails for any cluster context, the dispatch
\* fails with the first generation error and ApplyOperation is not called,
\* not even with the credentials generated for earlier contexts.
C9_AllOrNothingCredentials ==
    (IsDispatch /\ Resolves /\ last.ctx.ok /\ ~AllGenerate(last.ctx.list)) =>
        /\ last.err = last.ctx.list[FirstFailure(last.ctx.list)].val
        /\ CountCalls(last.calls, "ApplyOperation") = 0
        /\ last.calls = <<>>
        /\ last.kube = <<>>

\* the first context generates and the second fails
C9_Witness ==
    /\ IsDispatch /\ Resolves /\ last.ctx.ok
    /\ Len(last.ctx.list) >= 2
    /\ last.ctx.list[1].ok /\ ~last.ctx.list[2].ok

\* the dispatch resolved its adapter and generated n >= 1 credentials
Ready ==
    /\ IsDispatch /\ Resolves
    /\ last.ctx.ok /\ Len(last.ctx.list) >= 1 /\ AllGenerate(last.ctx.list)

\* C10 as stated: a dispatch that resolves its adapter and generates all
\* n >= 1 credentials issues exactly one ApplyOperation call, whose
\* KubeConfigs are the n blobs in the order of the contexts.
C10_ExactlyOneCall ==
    Ready =>
        /\ CountCalls(last.calls, "ApplyOperation") = 1
        /\ last.kube = Blobs(last.ctx.list)

\* C10 amended: such a dispatch issues exactly one ApplyOperation call,
\* with the n blobs in context order, when the client is created and the
\* operation id is generated, also when the call returns an error; it
\* issues none when CreateClient or uuid.NewV4 fails.
C10_OneCallOnceConnected ==
    Ready =>
        IF last.rpc \in {"clientFail", "uuidFail"}
        THEN CountCalls(last.calls, "ApplyOperation") = 0
        ELSE /\ CountCalls(last.calls, "ApplyOperation") = 1
             /\ last.kube = Blobs(last.ctx.list)
             /\ last.err = IF last.rpc = "applyFail"
                           THEN ErrApplyOperation ELSE NoErr

\* two credentials are sent and ApplyOperation returns an error
C10_Witness ==
    /\ Ready
    /\ Len(last.ctx.list) = 2
    /\ last.rpc = "applyFail"
    /\ last.kube = <<last.ctx.list[1].val, last.ctx.list[2].val>>

\* the address "Host:Port" of an adapter, the port in decimal digits
HostPortKey(ad) == <<ad.Host, ":">> \o FormatD(ad.Port)

\* C11: a dispatch keyed by a registered adapter's Host combined with its
\* allocated Port ("Host:Port") resolves to that adapter, and a key of
\* neither shape is not found.
C11_HostPortResolves ==
    IsDispatch =>
        /\ \A i \in 1 .. Len(last.pre.list) :
               last.arg = HostPortKey(last.pre.list[i]) =>
                   last.err # ErrValidAdapter
        /\ (\A i \in 1 .. Len(last.pre.list) :
               /\ last.arg # HostPortKey(last.pre.list[i])
               /\ last.arg # <<last.pre.list[i].Host>>) =>
                   last.err = ErrValidAdapter

\* the structs the registry points to
RegistryPtrs == {arr[prefObj.off + i] : i \in 1 .. prefObj.len}

\* C12: once Remove(host) has completed, no prober check writes the
\* Available flag of the removed adapter: every check writes to a struct
\* that is in the registry.
C12_NoProbeAfterRemove ==
    last.op = "Probe" => last.ptr \in RegistryPtrs

\* C18: the hosts list-adapters returns are the hosts registered: every
\* added host is listed and a removed host is not.
C18_ListedAreRegistered ==
    {ad.Host : ad \in GetAdapters(tracker)} =
        {Registry[i].Host : i \in 1 .. Len(Registry)}

\* C19: if RecordPreferences fails after an otherwise successful Add or
\* Remove, the request fails and the registry is as before the request: no
\* new adapter in the list or the tracker, no prober left running for it.
C19_FailedRecordRollsBack ==
    ((IsAdd \/ IsRemove) /\ last.recordCalls = 1
        /\ last.err = ErrRecordPreferences) =>
        /\ Registry = last.pre.list
        /\ NoSideEffects

\* C20: Remove(host) does not modify the sequence it was given: the slice
\* read before the removal still shows the original entries in the
\* original order, for a removal at the first, a middle or the last
\* position.
C20_OldListUntouched ==
    (IsRemove /\ Registered(last.pre.list, last.arg[1])) =>
        Deref(heap, Elems(arr, last.pre.s)) = last.pre.list

\* the effect of one request on a list of hosts, run alone
SerialStep(hosts, op, host) ==
    IF op = "Add"
    THEN IF \E i \in 1 .. Len(hosts) : hosts[i] = host THEN hosts
         ELSE Append(hosts, host)
    ELSE SelectSeq(hosts, LAMBDA h : h # host)

SerialResult(first, second) ==
    SerialStep(SerialStep(race.base, race.req[first].op,
                          race.req[first].host),
               race.req[second].op, race.req[second].host)

\* C13: concurrent Add and Remove requests are serialized: when two
\* concurrent requests have finished, the registry is what running them
\* one after the other, in one of the two orders, gives.
C13_Serialized ==
    (\A p \in Procs : race.req[p].pc = "done") =>
        HostList(Registry) \in {SerialResult(1, 2), SerialResult(2, 1)}

Ids(db) == [i \in 1 .. Len(db) |-> db[i].id]

\* the ids loop c has persisted, in persistence order
ByLoop(c) == Ids(SelectSeq(persisted, LAMBDA rec : rec.by = c))

Front(seq) == SubSeq(seq, 1, Len(seq) - 1)

UpTo(n) == [i \in 1 .. n |-> i]

\* C14: while every message decodes and persists, the loop persists one
\* record per message it was delivered, in delivery order: after m1..mn
\* have been consumed the persisted sequence is m1..mn.
C14_PersistsInOrder ==
    \A c \in 1 .. Len(loops) :
        loops[c].err = NoErr =>
            /\ loops[c].pc \in {"recv", "proc"}
            /\ ByLoop(c) = IF loops[c].pc = "proc"
                           THEN Front(loops[c].received)
                           ELSE loops[c].received
            /\ Len(loops) = 1 =>
                   Ids(persisted) = UpTo(IF loops[c].pc = "proc"
                                         THEN delivered - 1 ELSE delivered)

\* three well-formed messages went through one loop
C14_Witness ==
    /\ Len(loops) = 1
    /\ loops[1].err = NoErr /\ loops[1].pc = "recv"
    /\ Ids(persisted) = <<1, 2, 3>>

\* C15: after the first message whose decode or persist fails the loop has
\* halted for good: the failing message is not persisted and not retried,
\* the loop consumes no later message and is not restarted, and the
\* records are the messages before the failure.
C15_HaltsOnFirstFailure ==
    \A c \in 1 .. Len(loops) :
        loops[c].err # NoErr =>
            /\ loops[c].pc \in {"failed", "returned"}
            /\ loops[c].msg.id = loops[c].received[Len(loops[c].received)]
            /\ ByLoop(c) = Front(loops[c].received)
            /\ Len(loops) = 1 =>
                   /\ delivered = loops[c].msg.id
                   /\ Ids(persisted) = UpTo(delivered - 1)

\* a malformed second message stopped the only loop while the channel had
\* more to deliver
C15_Witness ==
    /\ Len(loops) = 1
    /\ loops[1].err = DecodeError /\ loops[1].pc = "returned"
    /\ loops[1].received = <<1, 2>>
    /\ Ids(persisted) = <<1>>
    /\ delivered < MaxMessages

\* C16: at most one consumer reads the broker channel, also when the
\* status stream is subscribed to more than once: no two messages are
\* processed at the same time and the persistence order is the delivery
\* order.
C16_SingleConsumer ==
    /\ Cardinality({c \in 1 .. Len(loops) :
                       loops[c].pc \in {"recv", "proc"}}) <= 1
    /\ \A i, j \in 1 .. Len(persisted) :
           i < j => persisted[i].id < persisted[j].id

\* C17: a subscription gets no event while its pipeline is healthy; when
\* the pipeline has failed it gets exactly one event, which carries the
\* failure's description, and nothing after it.
C17_OneTerminalEvent ==
    \A c \in 1 .. Len(loops) :
        /\ loops[c].pc \in {"recv", "proc", "failed"} =>
               loops[c].events = <<>>
        /\ loops[c].pc = "returned" =>
               /\ loops[c].err \in {DecodeError, PersistError}
               /\ Len(loops[c].events) = 1
               /\ loops[c].events[1].Description = loops[c].err
               /\ loops[c].events[1].Name = "meshsync"

\* a storage failure was reported on a subscription after a record went in
C17_Witness ==
    \E c \in 1 .. Len(loops) :
        /\ loops[c].pc = "returned"
        /\ loops[c].err = PersistError
        /\ loops[c].events = <<statusEvent(PersistError)>>
        /\ Len(persisted) >= 1
====
